---- MODULE Spec2Model ----
(***************************************************************************)
(* Markdown anchor-link utilities of private-blockchain-cli:               *)
(*   fix-anchors.py       create_github_anchor / remove_emojis, analysis   *)
(*   fix-anchors-auto.py  fix_markdown_file over the per-file fix tables   *)
(*   fix-links.py         fix_specific_issues                              *)
(*                                                                         *)
(* Header text is a sequence of Unicode code points (Python str); file     *)
(* content and link literals are strings.                                  *)
(***************************************************************************)
EXTENDS Integers, Sequences, FiniteSets, TLC

VARIABLES
    header,   \* argument of create_github_anchor
    title,    \* its local variable `title`
    pc,       \* next statement of create_github_anchor to run
    anchor,   \* its return value (empty until it returns)
    pass,     \* 1: first call; 2: the call on the first call's result
    script,   \* the script that runs
    stage,    \* where its main function stands
    idx,      \* position of its loop over the file list
    disk,     \* the markdown files: whether each exists, and its content
    initial,  \* the files as they were when the script started
    reads,    \* files opened for reading, in order
    writes,   \* files opened for writing, in order
    returned, \* return values of the fix_markdown_file calls, in order
    total_files_changed,  \* fix-anchors-auto.py, main
    fixes_applied,        \* fix-links.py, fix_specific_issues
    reported  \* the number printed in the final summary line

anchorVars == <<header, title, pc, anchor, pass>>

fileVars ==
    <<script, stage, idx, disk, initial, reads, writes, returned,
      total_files_changed, fixes_applied, reported>>

vars == <<anchorVars, fileVars>>

--------------------------------------------------------------------------
(* Bounds of the explored inputs *)

MaxLen == 4

MaxSepLen == 5

MaxFrags == 3

--------------------------------------------------------------------------
(* Characters *)

Hash == 35

Hyphen == 45

\* '#', ' ', '-', 'a', 'A', '_', U+00C9 (E acute), '&', U+1F680 (rocket),
\* U+2776 (dingbat circled digit one: in an emoji range and matched by \w)
Alphabet == {35, 32, 45, 97, 65, 95, 201, 38, 128640, 10102}

\* 'a', ' ', '-', '&', U+1F680
SeparatorAlphabet == {97, 32, 45, 38, 128640}

\* the character class of the regular expression in remove_emojis
IsEmoji(c) ==
    \/ c \in 128512..128591    \* U+1F600-U+1F64F
    \/ c \in 127744..128511    \* U+1F300-U+1F5FF
    \/ c \in 128640..128767    \* U+1F680-U+1F6FF
    \/ c \in 127456..127487    \* U+1F1E0-U+1F1FF
    \/ c \in 9728..9983        \* U+2600-U+26FF
    \/ c \in 9984..10175       \* U+2700-U+27BF

\* \s of Python's re on str
IsSpace(c) ==
    c \in (9..13) \cup (28..32) \cup {133, 160, 5760} \cup (8192..8202)
          \cup {8232, 8233, 8239, 8287, 12288}

\* \w of Python's re on str (alphanumeric or underscore), for the code
\* points below U+0100 and those of the six emoji ranges
IsWord(c) ==
    \/ c \in (48..57) \cup (65..90) \cup {95} \cup (97..122)
    \/ c \in {170, 178, 179, 181, 185, 186} \cup (188..190)
    \/ c \in (192..214) \cup (216..246) \cup (248..255)
    \/ c \in 10102..10131      \* U+2776-U+2793, dingbat digits

\* str.lower() on one character, for the same code points
LowerChar(c) ==
    IF c \in (65..90) \cup (192..214) \cup (216..222) THEN c + 32 ELSE c

--------------------------------------------------------------------------
(* fix-anchors.py: the statements of create_github_anchor *)

RECURSIVE DropWhileHash(_)
DropWhileHash(s) ==
    IF s # <<>> /\ Head(s) = Hash THEN DropWhileHash(Tail(s)) ELSE s

RECURSIVE DropWhileSpace(_)
DropWhileSpace(s) ==
    IF s # <<>> /\ IsSpace(Head(s)) THEN DropWhileSpace(Tail(s)) ELSE s

\* re.sub(r'^#+\s*', '', title)
strip_marker(s) ==
    IF s # <<>> /\ Head(s) = Hash THEN DropWhileSpace(DropWhileHash(s)) ELSE s

RECURSIVE remove_emojis_keep_dingbats(_)
remove_emojis_keep_dingbats(text) ==
    IF text = <<>> THEN <<>>
    ELSE IF IsEmoji(Head(text)) /\ Head(text) \notin 9984..10175
         THEN remove_emojis_keep_dingbats(Tail(text))
         ELSE <<Head(text)>> \o remove_emojis_keep_dingbats(Tail(text))

RECURSIVE remove_emojis_from(_, _)
remove_emojis_from(text, found) ==
    IF text = <<>> THEN <<>>
    ELSE IF IsEmoji(Head(text)) /\ ~found
         THEN remove_emojis_from(Tail(text), TRUE)
         ELSE <<Head(text)>> \o remove_emojis_from(Tail(text), found)

remove_emojis_first_only(text) == remove_emojis_from(text, FALSE)

\* re.sub(r'[<six ranges>]', '', text)
RECURSIVE remove_emojis(_)
remove_emojis(text) ==
    IF text = <<>> THEN <<>>
    ELSE IF IsEmoji(Head(text)) THEN remove_emojis(Tail(text))
         ELSE <<Head(text)>> \o remove_emojis(Tail(text))

\* title.lower()
lower(s) == [i \in 1..Len(s) |-> LowerChar(s[i])]

RECURSIVE remove_punct_as_hyphen(_)
remove_punct_as_hyphen(s) ==
    IF s = <<>> THEN <<>>
    ELSE IF IsWord(Head(s)) \/ IsSpace(Head(s)) \/ Head(s) = Hyphen
         THEN <<Head(s)>> \o remove_punct_as_hyphen(Tail(s))
         ELSE <<Hyphen>> \o remove_punct_as_hyphen(Tail(s))

\* re.sub(r'[^\w\s-]', '', title)
RECURSIVE remove_punct(_)
remove_punct(s) ==
    IF s = <<>> THEN <<>>
    ELSE IF IsWord(Head(s)) \/ IsSpace(Head(s)) \/ Head(s) = Hyphen
         THEN <<Head(s)>> \o remove_punct(Tail(s))
         ELSE remove_punct(Tail(s))

RECURSIVE DropWhileSeparator(_)
DropWhileSeparator(s) ==
    IF s # <<>> /\ (Head(s) = Hyphen \/ IsSpace(Head(s)))
    THEN DropWhileSeparator(Tail(s)) ELSE s

RECURSIVE collapse_each(_)
collapse_each(s) ==
    IF s = <<>> THEN <<>>
    ELSE IF Head(s) = Hyphen \/ IsSpace(Head(s))
         THEN <<Hyphen>> \o collapse_each(Tail(s))
         ELSE <<Head(s)>> \o collapse_each(Tail(s))

RECURSIVE collapse_pairs(_)
collapse_pairs(s) ==
    IF s = <<>> THEN <<>>
    ELSE IF Head(s) = Hyphen \/ IsSpace(Head(s))
         THEN IF Tail(s) # <<>> /\ (s[2] = Hyphen \/ IsSpace(s[2]))
              THEN <<Hyphen>> \o collapse_pairs(Tail(Tail(s)))
              ELSE <<Hyphen>> \o collapse_pairs(Tail(s))
         ELSE <<Head(s)>> \o collapse_pairs(Tail(s))

\* re.sub(r'[-\s]+', '-', title)
RECURSIVE collapse(_)
collapse(s) ==
    IF s = <<>> THEN <<>>
    ELSE IF Head(s) = Hyphen \/ IsSpace(Head(s))
         THEN <<Hyphen>> \o collapse(DropWhileSeparator(s))
         ELSE <<Head(s)>> \o collapse(Tail(s))

RECURSIVE LStripHyphens(_)
LStripHyphens(s) ==
    IF s # <<>> /\ Head(s) = Hyphen THEN LStripHyphens(Tail(s)) ELSE s

RECURSIVE RStripHyphens(_)
RStripHyphens(s) ==
    IF s # <<>> /\ s[Len(s)] = Hyphen
    THEN RStripHyphens(SubSeq(s, 1, Len(s) - 1)) ELSE s

strip_hyphens_left_only(s) == LStripHyphens(s)

\* title.strip('-')
strip_hyphens(s) == RStripHyphens(LStripHyphens(s))

--------------------------------------------------------------------------
(* Header lines of the specification's examples *)

\* "## Monitoring & Alerting"
MonitoringHeader ==
    <<35, 35, 32, 77, 111, 110, 105, 116, 111, 114, 105, 110, 103, 32, 38,
      32, 65, 108, 101, 114, 116, 105, 110, 103>>

\* "#monitoring-alerting"
MonitoringAnchor ==
    <<35, 109, 111, 110, 105, 116, 111, 114, 105, 110, 103, 45, 97, 108,
      101, 114, 116, 105, 110, 103>>

\* "## Step   By    Step Guide"
StepHeader ==
    <<35, 35, 32, 83, 116, 101, 112, 32, 32, 32, 66, 121, 32, 32, 32, 32,
      83, 116, 101, 112, 32, 71, 117, 105, 100, 101>>

\* "#step-by-step-guide"
StepAnchor ==
    <<35, 115, 116, 101, 112, 45, 98, 121, 45, 115, 116, 101, 112, 45, 103,
      117, 105, 100, 101>>

\* "## CI/CD Integration"
CicdHeader ==
    <<35, 35, 32, 67, 73, 47, 67, 68, 32, 73, 110, 116, 101, 103, 114, 97,
      116, 105, 111, 110>>

\* "#cicd-integration"
CicdAnchor ==
    <<35, 99, 105, 99, 100, 45, 105, 110, 116, 101, 103, 114, 97, 116, 105,
      111, 110>>

\* "## " U+1F389 U+1F389
PartyHeader ==
    <<35, 35, 32, 127881, 127881>>

\* "## " U+1F680 " Quick Start"
RocketHeader ==
    <<35, 35, 32, 128640, 32, 81, 117, 105, 99, 107, 32, 83, 116, 97, 114,
      116>>

\* "##  Quick Start"
RocketNoEmoji ==
    <<35, 35, 32, 32, 81, 117, 105, 99, 107, 32, 83, 116, 97, 114, 116>>

\* "#quick-start"
QuickStartAnchor ==
    <<35, 113, 117, 105, 99, 107, 45, 115, 116, 97, 114, 116>>

ExampleHeaders ==
    {MonitoringHeader, StepHeader, CicdHeader, PartyHeader, RocketHeader}

SeqsUpTo(S, n) == UNION {[1..k -> S] : k \in 0..n}

Headers ==
    SeqsUpTo(Alphabet, MaxLen) \cup SeqsUpTo(SeparatorAlphabet, MaxSepLen)
        \cup ExampleHeaders

--------------------------------------------------------------------------
(* create_github_anchor as a state machine, one action per statement *)

InitAnchor ==
    /\ header \in Headers
    /\ title = header
    /\ pc = "strip_marker"
    /\ anchor = <<>>
    /\ pass = 1
    /\ script = "fix-anchors"
    /\ stage = "done"
    /\ idx = 1
    /\ disk = [f \in {} |-> f]
    /\ initial = disk
    /\ reads = <<>>
    /\ writes = <<>>
    /\ returned = <<>>
    /\ total_files_changed = 0
    /\ fixes_applied = 0
    /\ reported = <<>>

Step(from, to, result) ==
    /\ pc = from
    /\ title' = result
    /\ pc' = to
    /\ UNCHANGED <<header, anchor, pass, fileVars>>

StripMarker == Step("strip_marker", "remove_emojis", strip_marker(title))

RemoveEmojis == Step("remove_emojis", "lower", remove_emojis(title))

Lower == Step("lower", "remove_punct", lower(title))

RemovePunct == Step("remove_punct", "collapse", remove_punct(title))

Collapse == Step("collapse", "strip_hyphens", collapse(title))

StripHyphens == Step("strip_hyphens", "return", strip_hyphens(title))

Return ==
    /\ pc = "return"
    /\ anchor' = <<Hash>> \o title
    /\ pc' = "done"
    /\ UNCHANGED <<header, title, pass, fileVars>>

\* create_github_anchor called on the anchor it has just returned
CallOnResult ==
    /\ pc = "done"
    /\ pass = 1
    /\ header' = anchor
    /\ title' = anchor
    /\ anchor' = <<>>
    /\ pc' = "strip_marker"
    /\ pass' = 2
    /\ UNCHANGED fileVars

NextAnchor ==
    \/ StripMarker
    \/ RemoveEmojis
    \/ Lower
    \/ RemovePunct
    \/ Collapse
    \/ StripHyphens
    \/ Return
    \/ CallOnResult

SpecAnchor == InitAnchor /\ [][NextAnchor]_vars


--------------------------------------------------------------------------
(* fix-anchors-auto.py: the fix tables of main *)

readme_fixes ==
    << <<"(#overview)", "(#overview)">>,
       <<"(#prerequisites)", "(#prerequisites)">>,
       <<"(#installation)", "(#installation)">>,
       <<"(#quick-start)", "(#quick-start)">>,
       <<"(#commands)", "(#commands)">>,
       <<"(#building-from-source)", "(#building-from-source)">>,
       <<"(#basic-testing)", "(#basic-testing)">>,
       <<"(#technical-details)", "(#technical-details)">>,
       <<"(#documentation)", "(#documentation)">>,
       <<"(#license)", "(#license)">> >>

examples_fixes ==
    << <<"(#quick-start-examples)", "(#quick-start-examples)">>,
       <<"(#real-world-use-cases)", "(#real-world-use-cases)">>,
       <<"(#advanced-scenarios)", "(#advanced-scenarios)">>,
       <<"(#docker-examples)", "(#docker-examples)">>,
       <<"(#automation-scripts)", "(#automation-scripts)">> >>

troubleshooting_fixes ==
    << <<"(#diagnostic-commands)", "(#diagnostic-commands)">>,
       <<"(#common-scenarios)", "(#common-scenarios)">>,
       <<"(#step-by-step-guide)", "(#step-by-step-guide)">>,
       <<"(#environment-issues)", "(#environment-issues)">>,
       <<"(#performance-problems)", "(#performance-problems)">>,
       <<"(#docker-issues)", "(#docker-issues)">>,
       <<"(#debug-mode)", "(#debug-mode)">> >>

docker_fixes ==
    << <<"(#quick-start)", "(#quick-start)">>,
       <<"(#installation)", "(#installation)">>,
       <<"(#basic-usage)", "(#basic-usage)">>,
       <<"(#docker-compose)", "(#docker-compose)">>,
       <<"(#volume-management)", "(#volume-management)">>,
       <<"(#production-usage)", "(#production-usage)">>,
       <<"(#troubleshooting)", "(#troubleshooting)">> >>

enterprise_fixes ==
    << <<"(#security-best-practices)", "(#security-best-practices)">>,
       <<"(#performance-best-practices)", "(#performance-best-practices)">>,
       <<"(#operational-best-practices)", "(#operational-best-practices)">>,
       <<"(#monitoring--alerting)", "(#monitoring-alerting)">>,
       <<"(#compliance--auditing)", "(#compliance-auditing)">>,
       <<"(#production-deployment)", "(#production-deployment)">> >>

automation_fixes ==
    << <<"(#daily-operations-scripts)", "(#daily-operations-scripts)">>,
       <<"(#backup-and-recovery-scripts)", "(#backup-and-recovery-scripts)">>,
       <<"(#monitoring-and-health-checks)", "(#monitoring-and-health-checks)">>,
       <<"(#cicd-integration-scripts)", "(#cicd-integration-scripts)">>,
       <<"(#maintenance-scripts)", "(#maintenance-scripts)">>,
       <<"(#docker-automation)", "(#docker-automation)">>,
       <<"(#troubleshooting-scripts)", "(#troubleshooting-scripts)">> >>

integration_fixes ==
    << <<"(#cicd-integration)", "(#cicd-integration)">>,
       <<"(#rest-api-integration)", "(#rest-api-integration)">>,
       <<"(#monitoring-integration)", "(#monitoring-integration)">>,
       <<"(#enterprise-systems-integration)", "(#enterprise-systems-integration)">>,
       <<"(#cloud-integration-patterns)", "(#cloud-integration-patterns)">>,
       <<"(#security-integration)", "(#security-integration)">> >>

\* files_to_fix
files_to_fix ==
    << <<"README.md", readme_fixes>>,
       <<"EXAMPLES.md", examples_fixes>>,
       <<"TROUBLESHOOTING.md", troubleshooting_fixes>>,
       <<"DOCKER_GUIDE.md", docker_fixes>>,
       <<"ENTERPRISE_GUIDE.md", enterprise_fixes>>,
       <<"AUTOMATION_SCRIPTS.md", automation_fixes>>,
       <<"INTEGRATION_PATTERNS.md", integration_fixes>> >>

\* fix-anchors.py, main: md_files
anchors_md_files ==
    <<"README.md", "EXAMPLES.md", "TROUBLESHOOTING.md", "DOCKER_GUIDE.md",
      "ENTERPRISE_GUIDE.md", "AUTOMATION_SCRIPTS.md",
      "INTEGRATION_PATTERNS.md">>

\* fix-links.py, fix_specific_issues: enterprise_file and md_files
enterprise_file == "ENTERPRISE_GUIDE.md"

links_md_files ==
    <<"README.md", "EXAMPLES.md", "TROUBLESHOOTING.md", "DOCKER_GUIDE.md",
      "AUTOMATION_SCRIPTS.md", "INTEGRATION_PATTERNS.md">>

FileNames == {files_to_fix[i][1] : i \in 1..Len(files_to_fix)}

FixesOf(f) ==
    LET i == CHOOSE k \in 1..Len(files_to_fix) : files_to_fix[k][1] = f
    IN  files_to_fix[i][2]

--------------------------------------------------------------------------
(* Python str operations on file content *)

\* old in content
Contains(content, old) ==
    \E i \in 1..(Len(content) - Len(old) + 1) :
        SubSeq(content, i, i + Len(old) - 1) = old

RECURSIVE replace_first_from(_, _, _, _)
replace_first_from(content, old, new, found) ==
    IF found \/ Len(content) < Len(old) THEN content
    ELSE IF SubSeq(content, 1, Len(old)) = old
         THEN new \o replace_first_from(
                        SubSeq(content, Len(old) + 1, Len(content)),
                        old, new, TRUE)
         ELSE SubSeq(content, 1, 1)
                 \o replace_first_from(Tail(content), old, new, found)

replace_first(content, old, new) ==
    replace_first_from(content, old, new, FALSE)

\* content.replace(old, new), old not empty: the occurrences of old, found
\* left to right without overlap, each replaced by new
RECURSIVE replace(_, _, _)
replace(content, old, new) ==
    IF Len(content) < Len(old) THEN content
    ELSE IF SubSeq(content, 1, Len(old)) = old
         THEN new \o replace(SubSeq(content, Len(old) + 1, Len(content)),
                             old, new)
         ELSE SubSeq(content, 1, 1) \o replace(Tail(content), old, new)

\* fix-anchors-auto.py, fix_markdown_file: the loop over fixes, from rule k
\* on, with the content and changes_made reached so far
RECURSIVE apply_fixes(_, _, _, _)
apply_fixes(content, changes_made, fixes, k) ==
    IF k > Len(fixes) THEN [content |-> content, changes_made |-> changes_made]
    ELSE IF Contains(content, fixes[k][1])
         THEN apply_fixes(replace(content, fixes[k][1], fixes[k][2]),
                          changes_made + 1, fixes, k + 1)
         ELSE apply_fixes(content, changes_made, fixes, k + 1)

save_always(changes_made) == changes_made >= 0

\* fix-anchors-auto.py, fix_markdown_file: if changes_made > 0
save_needed(changes_made) == changes_made > 0

\* fix-links.py, fix_specific_issues: the two replacements
fix_double_dash(content) ==
    replace(replace(content, "(#monitoring--alerting)", "(#monitoring-alerting)"),
            "(#compliance--auditing)", "(#compliance-auditing)")

--------------------------------------------------------------------------
(* The files a script may find *)

NoFile == [exists |-> FALSE, content |-> ""]

File(content) == [exists |-> TRUE, content |-> content]

EnterpriseFragments ==
    {"(#monitoring--alerting)", "(#compliance--auditing)",
     "(#production-deployment)", "text ", "(#monitoring-"}

RECURSIVE Concat(_)
Concat(frags) ==
    IF frags = <<>> THEN "" ELSE Head(frags) \o Concat(Tail(frags))

EnterpriseContents ==
    {Concat(frags) : frags \in SeqsUpTo(EnterpriseFragments, MaxFrags)}

\* the states a file starts in: missing, without any link, linking to the
\* first anchor of its table, holding a stale double-hyphen link
StartOf(f, k) ==
    CASE k = 0 -> NoFile
      [] k = 1 -> File("Plain text.")
      [] k = 2 -> File("[toc]" \o FixesOf(f)[1][1])
      [] k = 3 -> File("See [alerts](#monitoring--alerting).")

\* every file in any of its start states, independently
Disks ==
    {[f \in FileNames |-> StartOf(f, o[f])] :
        o \in {g \in [FileNames -> 0..3] :
                  \A f \in FileNames : g[f] = 3 => f = enterprise_file}}

\* ENTERPRISE_GUIDE.md with any content, beside the other files
EnterpriseDisks ==
    {[f \in FileNames |-> IF f = enterprise_file THEN e ELSE StartOf(f, o)] :
        e \in {NoFile} \cup {File(c) : c \in EnterpriseContents},
        o \in 0..2}

Scripts == {"fix-anchors", "fix-anchors-auto", "fix-links"}

--------------------------------------------------------------------------
(* The three scripts as state machines, one action per loop iteration *)

StartOn(disks) ==
    /\ script \in Scripts
    /\ stage = IF script = "fix-links" THEN "fix" ELSE "loop"
    /\ idx = 1
    /\ disk \in disks
    /\ initial = disk
    /\ reads = <<>>
    /\ writes = <<>>
    /\ returned = <<>>
    /\ total_files_changed = 0
    /\ fixes_applied = 0
    /\ reported = <<>>
    /\ header = <<>>
    /\ title = <<>>
    /\ pc = "done"
    /\ anchor = <<>>
    /\ pass = 1

\* fix-anchors-auto.py, main: one iteration of the loop over files_to_fix,
\* the call of fix_markdown_file included
FixMarkdownFileMissingAborts ==
    /\ script = "fix-anchors-auto"
    /\ stage = "loop"
    /\ idx <= Len(files_to_fix)
    /\ LET filepath == files_to_fix[idx][1]
           fixes == files_to_fix[idx][2]
           r == apply_fixes(disk[filepath].content, 0, fixes, 1)
       IN  IF ~disk[filepath].exists
           THEN /\ stage' = "done"
                /\ idx' = idx
                /\ UNCHANGED <<disk, reads, writes, returned,
                               total_files_changed>>
           ELSE /\ reads' = Append(reads, filepath)
                /\ stage' = stage
                /\ idx' = idx + 1
                /\ IF save_needed(r.changes_made)
                   THEN /\ disk' = [disk EXCEPT ![filepath].content = r.content]
                        /\ writes' = Append(writes, filepath)
                        /\ returned' = Append(returned, TRUE)
                        /\ total_files_changed' = total_files_changed + 1
                   ELSE /\ returned' = Append(returned, FALSE)
                        /\ UNCHANGED <<disk, writes, total_files_changed>>
    /\ UNCHANGED <<script, initial, fixes_applied, reported, anchorVars>>

FixMarkdownFile ==
    /\ script = "fix-anchors-auto"
    /\ stage = "loop"
    /\ idx <= Len(files_to_fix)
    /\ LET filepath == files_to_fix[idx][1]
           fixes == files_to_fix[idx][2]
           r == apply_fixes(disk[filepath].content, 0, fixes, 1)
       IN  IF ~disk[filepath].exists
           THEN /\ returned' = Append(returned, FALSE)
                /\ UNCHANGED <<disk, reads, writes, total_files_changed>>
           ELSE /\ reads' = Append(reads, filepath)
                /\ IF save_needed(r.changes_made)
                   THEN /\ disk' = [disk EXCEPT ![filepath].content = r.content]
                        /\ writes' = Append(writes, filepath)
                        /\ returned' = Append(returned, TRUE)
                        /\ total_files_changed' = total_files_changed + 1
                   ELSE /\ returned' = Append(returned, FALSE)
                        /\ UNCHANGED <<disk, writes, total_files_changed>>
    /\ idx' = idx + 1
    /\ UNCHANGED <<script, stage, initial, fixes_applied, reported, anchorVars>>

\* fix-anchors-auto.py, main: the summary after the loop
AutoSummary ==
    /\ script = "fix-anchors-auto"
    /\ stage = "loop"
    /\ idx > Len(files_to_fix)
    /\ reported' = Append(reported, total_files_changed)
    /\ stage' = "done"
    /\ UNCHANGED <<script, idx, disk, initial, reads, writes, returned,
                   total_files_changed, fixes_applied, anchorVars>>

\* fix-links.py, fix_specific_issues: the ENTERPRISE_GUIDE.md block
FixEnterprise ==
    /\ script = "fix-links"
    /\ stage = "fix"
    /\ IF disk[enterprise_file].exists
       THEN LET original_content == disk[enterprise_file].content
                content == fix_double_dash(original_content)
            IN  /\ reads' = Append(reads, enterprise_file)
                /\ IF content # original_content
                   THEN /\ disk' = [disk EXCEPT
                                      ![enterprise_file].content = content]
                        /\ writes' = Append(writes, enterprise_file)
                        /\ fixes_applied' = fixes_applied + 1
                   ELSE UNCHANGED <<disk, writes, fixes_applied>>
       ELSE UNCHANGED <<disk, reads, writes, fixes_applied>>
    /\ stage' = "loop"
    /\ UNCHANGED <<script, idx, initial, returned, total_files_changed,
                   reported, anchorVars>>

\* fix-links.py, fix_specific_issues: one iteration of the checking loop
\* (it reads the file and prints what it finds)
CheckFile ==
    /\ script = "fix-links"
    /\ stage = "loop"
    /\ idx <= Len(links_md_files)
    /\ reads' = IF disk[links_md_files[idx]].exists
                THEN Append(reads, links_md_files[idx]) ELSE reads
    /\ idx' = idx + 1
    /\ UNCHANGED <<script, stage, disk, initial, writes, returned,
                   total_files_changed, fixes_applied, reported, anchorVars>>

\* fix-links.py, fix_specific_issues: the summary after the loop
LinksSummary ==
    /\ script = "fix-links"
    /\ stage = "loop"
    /\ idx > Len(links_md_files)
    /\ reported' = Append(reported, fixes_applied)
    /\ stage' = "done"
    /\ UNCHANGED <<script, idx, disk, initial, reads, writes, returned,
                   total_files_changed, fixes_applied, anchorVars>>

\* fix-anchors.py, main: one iteration of the loop over md_files;
\* process_markdown_file reads the file and prints its headers' anchors
ProcessMarkdownFile ==
    /\ script = "fix-anchors"
    /\ stage = "loop"
    /\ idx <= Len(anchors_md_files)
    /\ reads' = IF disk[anchors_md_files[idx]].exists
                THEN Append(reads, anchors_md_files[idx]) ELSE reads
    /\ idx' = idx + 1
    /\ UNCHANGED <<script, stage, disk, initial, writes, returned,
                   total_files_changed, fixes_applied, reported, anchorVars>>

\* fix-anchors.py, main: the closing lines after the loop
AnalysisComplete ==
    /\ script = "fix-anchors"
    /\ stage = "loop"
    /\ idx > Len(anchors_md_files)
    /\ stage' = "done"
    /\ UNCHANGED <<script, idx, disk, initial, reads, writes, returned,
                   total_files_changed, fixes_applied, reported, anchorVars>>

NextFiles ==
    \/ FixMarkdownFile
    \/ AutoSummary
    \/ FixEnterprise
    \/ CheckFile
    \/ LinksSummary
    \/ ProcessMarkdownFile
    \/ AnalysisComplete

InitFiles == StartOn(Disks)

SpecFiles == InitFiles /\ [][NextFiles]_vars

InitEnterprise == StartOn(EnterpriseDisks)

SpecEnterprise == InitEnterprise /\ [][NextFiles]_vars

--------------------------------------------------------------------------
(* Properties of create_github_anchor and remove_emojis *)

Slug(a) == SubSeq(a, 2, Len(a))

NoEdgeOrDoubleHyphen(s) ==
    /\ s # <<>> => (s[1] # Hyphen /\ s[Len(s)] # Hyphen)
    /\ \A i \in 1..(Len(s) - 1) : ~(s[i] = Hyphen /\ s[i + 1] = Hyphen)

\* [a-z0-9-]
IsAsciiSlugChar(c) == c \in (97..122) \cup (48..57) \cup {45}

\* the six ranges as the specification lists them
InListedEmojiRanges(c) ==
    \/ (c >= 128512 /\ c <= 128591)
    \/ (c >= 127744 /\ c <= 128511)
    \/ (c >= 128640 /\ c <= 128767)
    \/ (c >= 127456 /\ c <= 127487)
    \/ (c >= 9728 /\ c <= 9983)
    \/ (c >= 9984 /\ c <= 10175)

IsSeparator(c) == c = Hyphen \/ IsSpace(c)

IsPunctuation(c) == ~IsWord(c) /\ ~IsSpace(c) /\ c # Hyphen

\* t is s with exactly the characters satisfying Del deleted, order kept
IsDeletionOf(s, t, Del(_)) ==
    LET keep == {i \in 1..Len(s) : ~Del(s[i])}
    IN  /\ Len(t) = Cardinality(keep)
        /\ \A i \in keep : t[Cardinality({j \in keep : j <= i})] = s[i]

\* t is s with every maximal run of separators replaced by one hyphen
RunsBecomeOneHyphen(s, t) ==
    LET kept(u) == {i \in 1..Len(u) : ~IsSeparator(u[i])}
        rank(u, i) == Cardinality({j \in kept(u) : j <= i})
        runs == {i \in 1..Len(s) :
                    IsSeparator(s[i]) /\ (i = 1 \/ ~IsSeparator(s[i - 1]))}
        hyphens == {i \in 1..Len(t) : t[i] = Hyphen}
    IN  /\ \A i \in 1..Len(t) : ~IsSpace(t[i])
        /\ \A i \in 1..(Len(t) - 1) : ~(t[i] = Hyphen /\ t[i + 1] = Hyphen)
        /\ Cardinality(hyphens) = Cardinality(runs)
        /\ Cardinality(kept(t)) = Cardinality(kept(s))
        /\ (s # <<>> /\ IsSeparator(s[1])) => (t # <<>> /\ t[1] = Hyphen)
        /\ \A i \in kept(s) : \E k \in kept(t) :
              /\ rank(t, k) = rank(s, i)
              /\ t[k] = s[i]
              /\ (i < Len(s) /\ IsSeparator(s[i + 1]))
                    => (k < Len(t) /\ t[k + 1] = Hyphen)

\* C1 as claimed: every returned anchor starts with '#', every character
\* after the '#' is in [a-z0-9-], and the part after the '#' has no
\* leading, trailing or doubled hyphen.
C1_AsciiSlug ==
    pc = "done" =>
        /\ anchor # <<>> /\ anchor[1] = Hash
        /\ \A i \in 2..Len(anchor) : IsAsciiSlugChar(anchor[i])
        /\ NoEdgeOrDoubleHyphen(Slug(anchor))

\* C1 as amended: every returned anchor starts with '#', every character
\* after the '#' is in [a-z0-9_-] or is a non-ASCII word character, and the
\* part after the '#' has no leading, trailing or doubled hyphen.
C1_WordSlug ==
    pc = "done" =>
        /\ anchor # <<>> /\ anchor[1] = Hash
        /\ \A i \in 2..Len(anchor) :
              \/ IsAsciiSlugChar(anchor[i])
              \/ anchor[i] = 95
              \/ (anchor[i] > 127 /\ IsWord(anchor[i]))
        /\ NoEdgeOrDoubleHyphen(Slug(anchor))

\* "A_" U+00C9 "&" has returned "#a_" U+00E9
C1_Witness ==
    /\ pc = "done"
    /\ header = <<65, 95, 201, 38>>
    /\ anchor = <<35, 97, 95, 233>>

\* C2: create_github_anchor is idempotent on its own output: called on the
\* anchor s it returned it returns s again, and lowercasing, removing
\* punctuation, collapsing and trimming the anchor without its '#'
\* reproduces it.
C2_Idempotent ==
    pass = 2 =>
        /\ pc \in {"remove_emojis", "lower", "return"} => title = Tail(header)
        /\ pc = "done" => anchor = header

\* the second call, on "#a-a", has returned
C2_Witness ==
    /\ pass = 2
    /\ pc = "done"
    /\ header = <<35, 97, 45, 97>>
    /\ anchor = <<35, 97, 45, 97>>

\* C3: punctuation and emoji are gone before separators are collapsed, and
\* the collapse turns every maximal run of hyphens and whitespace into one
\* hyphen; "## Monitoring & Alerting" gives "#monitoring-alerting" and
\* "## Step   By    Step Guide" gives "#step-by-step-guide".
C3_CollapseAfterRemoval ==
    /\ [][(pc = "collapse" /\ pc' = "strip_hyphens") =>
            /\ \A i \in 1..Len(title) :
                  ~IsPunctuation(title[i]) /\ ~InListedEmojiRanges(title[i])
            /\ RunsBecomeOneHyphen(title, title')]_vars
    /\ [](pc = "done" /\ header = MonitoringHeader => anchor = MonitoringAnchor)
    /\ [](pc = "done" /\ header = StepHeader => anchor = StepAnchor)

\* "## Monitoring & Alerting" has returned "#monitoring-alerting"
C3_Witness ==
    /\ pc = "done"
    /\ pass = 1
    /\ header = MonitoringHeader
    /\ anchor = MonitoringAnchor

C5_SymbolOnlyTitle ==
    (/\ pc = "done"
     /\ pass = 1
     /\ \E n \in 0..Len(header) :
           /\ \A i \in 1..n : header[i] = Hash
           /\ \A i \in (n + 1)..Len(header) :
                 \/ InListedEmojiRanges(header[i])
                 \/ IsPunctuation(header[i])
                 \/ IsSeparator(header[i]))
    => anchor = <<Hash>>

\* "## " U+1F389 U+1F389 has returned "#"
C5_Witness ==
    /\ pc = "done"
    /\ pass = 1
    /\ header = PartyHeader
    /\ anchor = <<Hash>>

\* C6: remove_emojis deletes exactly the characters of the six listed
\* ranges and keeps every other character in order; "## " U+1F680
\* " Quick Start" gives "#quick-start".
C6_RemoveEmojisExact ==
    /\ [][(pc = "remove_emojis" /\ pc' = "lower") =>
            IsDeletionOf(title, title', InListedEmojiRanges)]_vars
    /\ [](pc = "done" /\ header = RocketHeader => anchor = QuickStartAnchor)

\* remove_emojis has run on U+1F680 " Quick Start"
C6_Witness ==
    /\ pc = "lower"
    /\ pass = 1
    /\ header = RocketHeader
    /\ title = SubSeq(RocketNoEmoji, 4, Len(RocketNoEmoji))

--------------------------------------------------------------------------
(* Properties of the file-rewriting scripts *)

StaleMonitoring == "(#monitoring--alerting)"

StaleCompliance == "(#compliance--auditing)"

Occurrences(content, old) ==
    {i \in 1..(Len(content) - Len(old) + 1) :
        SubSeq(content, i, i + Len(old) - 1) = old}

\* after is before without the characters at the positions in dropped
IsWithoutPositions(before, after, dropped) ==
    LET keep == (1..Len(before)) \ dropped
    IN  /\ Len(after) = Cardinality(keep)
        /\ \A i \in keep :
              LET r == Cardinality({j \in keep : j <= i})
              IN  SubSeq(after, r, r) = SubSeq(before, i, i)

\* the second hyphen of every stale double-hyphen link of content
SecondHyphens(content) ==
    {i + Len("(#monitoring-") : i \in Occurrences(content, StaleMonitoring)}
        \cup
    {i + Len("(#compliance-") : i \in Occurrences(content, StaleCompliance)}

EnterpriseProcessed ==
    \/ /\ script = "fix-anchors-auto"
       /\ \E k \in 1..(idx - 1) : files_to_fix[k][1] = enterprise_file
    \/ /\ script = "fix-links"
       /\ stage # "fix"

\* C7: once fix_markdown_file (with enterprise_fixes) or fix_specific_issues
\* has processed ENTERPRISE_GUIDE.md, its content holds neither
\* "(#monitoring--alerting)" nor "(#compliance--auditing)": every occurrence
\* has become the single-hyphen link and all other text is as it was.
C7_DoubleDashLinksFixed ==
    (EnterpriseProcessed /\ disk[enterprise_file].exists) =>
        LET before == initial[enterprise_file].content
            after == disk[enterprise_file].content
        IN  /\ ~Contains(after, StaleMonitoring)
            /\ ~Contains(after, StaleCompliance)
            /\ IsWithoutPositions(before, after, SecondHyphens(before))

\* fix-anchors-auto.py has finished on a file holding both stale links
C7_Witness ==
    /\ script = "fix-anchors-auto"
    /\ stage = "done"
    /\ initial[enterprise_file].content =
          "(#monitoring--alerting)(#compliance--auditing)"
    /\ disk[enterprise_file].content =
          "(#monitoring-alerting)(#compliance-auditing)"

\* the replacement rules a script applies to a file
RulesFor(f) ==
    IF script = "fix-anchors-auto" THEN FixesOf(f)
    ELSE IF script = "fix-links" /\ f = enterprise_file
         THEN << <<StaleMonitoring, "(#monitoring-alerting)">>,
                 <<StaleCompliance, "(#compliance-auditing)">> >>
         ELSE <<>>

WrittenFiles == {writes[k] : k \in 1..Len(writes)}

\* C8: a file none of whose rules' stale links occurs in its content is
\* never written and keeps its content; fix-anchors.py writes no file and
\* the checking loop of fix-links.py writes no file.
C8_WriteOnlyOnMatch ==
    /\ \A f \in FileNames :
          (\A k \in 1..Len(RulesFor(f)) :
              ~Contains(initial[f].content, RulesFor(f)[k][1]))
          => (f \notin WrittenFiles /\ disk[f] = initial[f])
    /\ script = "fix-anchors" => (writes = <<>> /\ disk = initial)
    /\ script = "fix-links" =>
          /\ WrittenFiles \subseteq {enterprise_file}
          /\ stage # "fix" => Len(writes) = Len(SelectSeq(reads,
                LAMBDA f : f = enterprise_file /\ disk[f] # initial[f]))

\* fix-anchors-auto.py has finished: README.md, without any link, was read
\* and not written, while ENTERPRISE_GUIDE.md was written
C8_Witness ==
    /\ script = "fix-anchors-auto"
    /\ stage = "done"
    /\ initial["README.md"] = File("Plain text.")
    /\ disk["README.md"] = File("Plain text.")
    /\ reads[1] = "README.md"
    /\ initial[enterprise_file] = StartOf(enterprise_file, 3)
    /\ writes = <<enterprise_file>>

\* the files of the running script's list, in the order it visits them
VisitOrder ==
    CASE script = "fix-anchors-auto" ->
            [k \in 1..Len(files_to_fix) |-> files_to_fix[k][1]]
      [] script = "fix-anchors" -> anchors_md_files
      [] script = "fix-links" -> <<enterprise_file>> \o links_md_files

\* C9: a missing file is skipped: it is never read or written,
\* fix_markdown_file returns False for it, and every script goes on to read
\* each existing file of its list in order and to its final summary.
C9_MissingFileSkipped ==
    /\ \A k \in 1..Len(reads) : disk[reads[k]].exists
    /\ \A k \in 1..Len(writes) : disk[writes[k]].exists
    /\ \A k \in 1..Len(returned) :
          ~disk[files_to_fix[k][1]].exists => returned[k] = FALSE
    /\ stage # "done" => ENABLED NextFiles
    /\ stage = "done" =>
          /\ reads = SelectSeq(VisitOrder, LAMBDA f : disk[f].exists)
          /\ script = "fix-anchors-auto" =>
                (Len(returned) = Len(files_to_fix) /\ Len(reported) = 1)
          /\ script = "fix-links" => Len(reported) = 1

\* fix-anchors-auto.py has finished with README.md and DOCKER_GUIDE.md
\* missing and the five other files read in order
C9_Witness ==
    /\ script = "fix-anchors-auto"
    /\ stage = "done"
    /\ ~disk["README.md"].exists
    /\ ~disk["DOCKER_GUIDE.md"].exists
    /\ reads = <<"EXAMPLES.md", "TROUBLESHOOTING.md", "ENTERPRISE_GUIDE.md",
                 "AUTOMATION_SCRIPTS.md", "INTEGRATION_PATTERNS.md">>
    /\ returned[1] = FALSE
    /\ Len(reported) = 1

\* C10: in fix-anchors-auto.py, fix_markdown_file returns True exactly when
\* the content it wrote differs from the content it read, and the number
\* main reports as modified is the number of files whose content changed.
C10_ReportedEqualsModified ==
    script = "fix-anchors-auto" =>
        /\ \A k \in 1..Len(returned) :
              returned[k] <=>
                 (disk[files_to_fix[k][1]] # initial[files_to_fix[k][1]])
        /\ stage = "done" =>
              reported = <<Cardinality({f \in FileNames :
                                           disk[f] # initial[f]})>>

====
